---------------------------- MODULE Spec2Model ----------------------------
(***************************************************************************)
(* CrosswordCreator of generate.py: node consistency, AC-3 and the         *)
(* backtracking search, as a state machine over the creator's domain map,  *)
(* the AC-3 worklist, the assignment dictionary and the recursion stack    *)
(* of backtrack.                                                           *)
(*                                                                         *)
(* A word is a sequence of letters.  Python indices are 0-based; overlap   *)
(* records keep the 0-based indices of the program and At adds one.        *)
(* Python's None for a missing overlap record is the empty tuple (both     *)
(* are falsy, which is all neighbors() looks at).                          *)
(* Iteration over a Python set (of words, of slots) has no order the       *)
(* program fixes: every place that iterates a set is a choice among all    *)
(* orders.                                                                 *)
(***************************************************************************)
EXTENDS Integers, Sequences, FiniteSets, TLC

VARIABLES
    puzzle,      \* self.crossword: slots, lengths, overlaps
    words,       \* self.crossword.words: the word pool
    pc,          \* where solve() is
    domains,     \* self.domains
    quee,        \* the worklist of ac3
    ac3Result,   \* what ac3() returned: "unset", "True" or "False"
    assignment,  \* the one dict that backtrack mutates
    stack,       \* the calls of backtrack that are inside their for loop
    retval,      \* what the call of backtrack that has just returned returned
    lastEntry,   \* the assignment that call was entered with
    result,      \* what solve() returned
    run,         \* 1 in the first solve(), 2 in the repeated one
    firstResult, \* what the first solve() returned
    call         \* the last method called on the creator from outside solve()

vars == << puzzle, words, pc, domains, quee, ac3Result, assignment, stack,
           retval, lastEntry, result, run, firstResult, call >>

----------------------------------------------------------------------------
(* Bounds and inputs *)

\* The largest word pool.
MaxPool == 3

a == "a"
b == "b"

\* The words a pool is drawn from: four of length two, two of length three.
WordUniverse ==
    { <<a, a>>, <<a, b>>, <<b, a>>, <<b, b>>, <<a, b, a>>, <<b, a, b>> }

Pools == { p \in SUBSET WordUniverse : Cardinality(p) <= MaxPool }

\* Overlap records of a puzzle: ov[<<v1, v2>>] = <<index in v1, index in v2>>,
\* or the empty tuple where the slots do not cross.
OverlapsOf(slots, crossings) ==
    [ p \in { q \in slots \X slots : q[1] # q[2] } |->
        IF p \in DOMAIN crossings THEN crossings[p]
        ELSE IF <<p[2], p[1]>> \in DOMAIN crossings
             THEN << crossings[<<p[2], p[1]>>][2], crossings[<<p[2], p[1]>>][1] >>
             ELSE << >> ]

\* Two slots of length 2; index 1 of slot 1 is index 0 of slot 2.
PuzzleCross ==
    [ variables |-> {1, 2},
      length    |-> <<2, 2>>,
      overlaps  |-> OverlapsOf({1, 2}, ( <<1, 2>> :> <<1, 0>> )) ]

\* Two slots that do not cross, of lengths 2 and 3.
PuzzleApart ==
    [ variables |-> {1, 2},
      length    |-> <<2, 3>>,
      overlaps  |-> OverlapsOf({1, 2}, [ p \in {} |-> << >> ]) ]

\* A down slot of length 3 (slot 2) crossed at its two ends by two across
\* slots of length 2: slot 1 starts on its first cell, slot 3 ends on its
\* last cell.
PuzzlePath ==
    [ variables |-> {1, 2, 3},
      length    |-> <<2, 3, 2>>,
      overlaps  |-> OverlapsOf({1, 2, 3},
                       ( <<1, 2>> :> <<0, 0>> ) @@ ( <<3, 2>> :> <<1, 2>> )) ]

\* A 2 x 2 block: across slots 1 (top) and 2 (bottom), down slots 3 (left)
\* and 4 (right); the crossings form a cycle.
PuzzleSquare ==
    [ variables |-> {1, 2, 3, 4},
      length    |-> <<2, 2, 2, 2>>,
      overlaps  |-> OverlapsOf({1, 2, 3, 4},
                       ( <<1, 3>> :> <<0, 0>> ) @@ ( <<1, 4>> :> <<1, 0>> ) @@
                       ( <<2, 3>> :> <<0, 1>> ) @@ ( <<2, 4>> :> <<1, 1>> )) ]

Puzzles == { PuzzleCross, PuzzleApart, PuzzlePath, PuzzleSquare }

----------------------------------------------------------------------------
(* Python values *)

\* word[i], i counted from 0.
At(word, i) == word[i + 1]

\* All orders in which a set can be iterated.
Orders(S) ==
    { f \in [ 1 .. Cardinality(S) -> S ] : \A x \in S : \E i \in DOMAIN f : f[i] = x }

\* The empty dict.
EmptyDict == [ v \in {} |-> << >> ]

\* assignment[variable] = value
DictSet(d, k, v) == [ x \in (DOMAIN d) \cup {k} |-> IF x = k THEN v ELSE d[x] ]

\* assignment.pop(variable)
DictPop(d, k) == [ x \in (DOMAIN d) \ {k} |-> d[x] ]

\* A returned assignment, and the returned None.
Some(d) == [ ok |-> TRUE, val |-> d ]
None == [ ok |-> FALSE, val |-> EmptyDict ]

\* No method has been called from outside solve().
NoCall == [ op |-> "none" ]

\* n != s for an int n and a set s: values of different types are never
\* equal in Python.
IntNotEqualSet(n, s) == TRUE

\* s == n for a set s and an int n: never equal.
SetEqualsInt(s, n) == FALSE

----------------------------------------------------------------------------
(* The puzzle model *)

\* crossword.neighbors(var): a fresh set on every call.
neighbors(P, var) ==
    { v \in P.variables : v # var /\ P.overlaps[<<v, var>>] # << >> }


----------------------------------------------------------------------------
(* The operations of CrosswordCreator, as functions of the state they read *)

\* __init__: every slot starts with a copy of the whole pool.
InitialDomains(P, pool) == [ var \in P.variables |-> pool ]

\* enforce_node_consistency with >= for ==: longer words are kept too.
enforce_node_consistency_at_least(P, dom) ==
    [ var \in P.variables |-> { w \in dom[var] : Len(w) >= P.length[var] } ]

\* enforce_node_consistency: the domain map it leaves.
enforce_node_consistency(P, dom) ==
    [ var \in P.variables |-> { w \in dom[var] : Len(w) = P.length[var] } ]

\* revise that leaves self.domains[x] as it was.
Auxiliar_unwritten(P, dom, x, y) == dom[x]

\* revise whose list comprehension collects domY, the matching words of
\* domains[y], in place of domX.
Auxiliar_collects_y(P, dom, x, y) ==
    LET yOverlap == P.overlaps[<<y, x>>][1]
        xOverlap == P.overlaps[<<y, x>>][2]
    IN  { domY \in dom[y] :
            \E domX \in dom[x] : At(domX, xOverlap) = At(domY, yOverlap) }

\* revise(x, y): the set written to self.domains[x].  For every domY the
\* words of domains[x] that match it at the overlap are collected, domY
\* itself taken out of them, and the rest united into auxiliar.
Auxiliar(P, dom, x, y) ==
    LET yOverlap == P.overlaps[<<y, x>>][1]
        xOverlap == P.overlaps[<<y, x>>][2]
        res(domY) == { domX \in dom[x] : At(domX, xOverlap) = At(domY, yOverlap) }
                        \ {domY}
    IN  UNION { res(domY) : domY \in dom[y] }

\* revise that prunes domains[y] against domains[x] as well.
revise_both(P, dom, x, y) ==
    [ dom EXCEPT ![x] = Auxiliar(P, dom, x, y), ![y] = Auxiliar(P, dom, y, x) ]

\* revise(x, y): the domain map it leaves.
revise(P, dom, x, y) == [ dom EXCEPT ![x] = Auxiliar(P, dom, x, y) ]

\* revise(x, y): its return value, len(xOriginal) != self.domains[x].
ReviseReturns(P, dom, x, y) ==
    IntNotEqualSet(Cardinality(dom[x]), revise(P, dom, x, y)[x])

\* ac3: the worklists the two nested loops over the slots and over each
\* slot's neighbors can build.
RECURSIVE ArcsInOrder(_, _, _)
ArcsInOrder(P, order, i) ==
    IF i > Len(order) THEN { << >> }
    ELSE LET var == order[i]
         IN  { [ k \in 1 .. Len(vecinos) |-> << vecinos[k], var >> ] \o rest :
                  vecinos \in Orders(neighbors(P, var)),
                  rest \in ArcsInOrder(P, order, i + 1) }

InitialQueues(P) == UNION { ArcsInOrder(P, order, 1) : order \in Orders(P.variables) }

\* Every ordered pair of neighboring slots.
AllArcs(P) == { q \in P.variables \X P.variables :
                  q[1] # q[2] /\ q[2] \in neighbors(P, q[1]) }

\* ac3(arcs), lines 137-140: the worklists it can start from.  The loops
\* that fill quee never read the arcs argument.
ac3_worklist(P, arcs) == InitialQueues(P)

\* ac3 that appends no arc after a revision.
ac3_vecinos_none(P, q) == { << >> }

\* ac3, lines 146-148: the neighbors of q[0] other than q[1], in the orders
\* the loop that appends their arcs can take them.
ac3_vecinos(P, q) == Orders(neighbors(P, q[1]) \ {q[2]})

\* consistent whose overlap branch, like its length branch, assigns the
\* misspelled flag: it returns True whatever the assignment.
consistent_misspelled_flag(P, asg) == TRUE

\* consistent(assignment).  The else branch of the length test assigns a
\* local named consistent, which the function never reads.
consistent(P, asg) ==
    \A var \in DOMAIN asg :
        P.length[var] = Len(asg[var]) =>
            \A vecino \in neighbors(P, var) \cap DOMAIN asg :
                LET overlap == P.overlaps[<<var, vecino>>]
                IN  At(asg[var], overlap[1]) = At(asg[vecino], overlap[2])

\* assignment_complete(assignment)
assignment_complete(P, asg) ==
    /\ Cardinality(P.variables) = Cardinality(DOMAIN asg)
    /\ consistent(P, asg)

\* Maximum of a non-empty set of numbers.
Max(S) == CHOOSE m \in S : \A n \in S : n <= m

\* select_unassigned_variable(assignment): the slots it can return.  With
\* more than one unassigned slot it pops the last key of degreeDict, with one
\* the last key of maxDict; the key order is the iteration order of a set.
select_unassigned_variable(P, dom, asg) ==
    LET unusedVar == (P.variables \ DOMAIN asg) \cup (DOMAIN asg \ P.variables)
        maxdatos(x) == Cardinality(dom[x])
        degreeDatos(x) == Cardinality(neighbors(P, x))
        maxDict == { x \in unusedVar :
                       maxdatos(x) = Max({ maxdatos(z) : z \in unusedVar }) }
        degreeDict == { x \in unusedVar :
                          degreeDatos(x) = Max({ degreeDatos(z) : z \in unusedVar }) }
    IN  IF Cardinality(unusedVar) > 1 THEN degreeDict ELSE maxDict

\* order_domain_values, line 187, with set.intersection for
\* set.intersection_update: the assigned neighbors of var.
knownVecinos_intersection(P, var, asg) == DOMAIN asg \cap neighbors(P, var)

\* order_domain_values, line 187: knownVecinos is what
\* set.intersection_update returns, which is None.  None is the empty set
\* here: both are falsy, and line 189 looks at nothing else.
knownVecinos(P, var, asg) == {}

\* order_domain_values, lines 189-195: the domain maps the call writes to
\* self.domains.  With knownVecinos, every turn of the loop writes
\* domOriginal back to domains[var] and then calls revise(var, vecino);
\* without, nothing is written.
order_domain_values_writes(P, dom, var, asg) ==
    IF knownVecinos(P, var, asg) # {}
    THEN {dom} \cup { revise(P, dom, var, vecino) :
                        vecino \in knownVecinos(P, var, asg) }
    ELSE {}

\* order_domain_values: the domain maps the call can leave.  With
\* knownVecinos it is what the revise of the last turn wrote.
order_domain_values_leaves(P, dom, var, asg) ==
    IF knownVecinos(P, var, asg) # {}
    THEN { revise(P, dom, var, vecino) : vecino \in knownVecinos(P, var, asg) }
    ELSE {dom}

\* order_domain_values(var, assignment): the values it can return.  With
\* knownVecinos it returns what list.sort() returns, None; without,
\* list(domOriginal), the words of the domain in the order of the set.
order_domain_values(P, dom, var, asg) ==
    IF knownVecinos(P, var, asg) # {}
    THEN { None }
    ELSE { Some(values) : values \in Orders(dom[var]) }

----------------------------------------------------------------------------
(* The state machine of solve() *)

Init ==
    /\ puzzle \in Puzzles
    /\ words \in Pools
    /\ domains = InitialDomains(puzzle, words)
    /\ pc = "solve"
    /\ quee = << >>
    /\ ac3Result = "unset"
    /\ assignment = EmptyDict
    /\ stack = << >>
    /\ retval = None
    /\ lastEntry = EmptyDict
    /\ result = None
    /\ run = 1
    /\ firstResult = None
    /\ call = NoCall

\* solve, line 92: self.enforce_node_consistency()
EnforceNodeConsistency ==
    /\ pc = "solve"
    /\ domains' = enforce_node_consistency(puzzle, domains)
    /\ pc' = "ac3"
    /\ UNCHANGED << puzzle, words, quee, ac3Result, assignment, stack, retval,
                    lastEntry, result, run, firstResult,
                    call >>

\* solve, line 93, and ac3, lines 137-140: the worklist is filled with every
\* ordered pair of neighbors.
Ac3Start ==
    /\ pc = "ac3"
    /\ quee' \in ac3_worklist(puzzle, None)
    /\ pc' = "ac3_loop"
    /\ UNCHANGED << puzzle, words, domains, ac3Result, assignment, stack, retval,
                    lastEntry, result, run, firstResult,
                    call >>

\* ac3, lines 141-149: one turn of the while loop.  An arc is popped and
\* revised; when revise returns True and the domain does not compare equal
\* to 0, the arcs (vecino, q[0]) of the other neighbors are appended.
\* When ac3 returns False, solve goes on to line 94 as after any return.
Ac3Revise ==
    /\ pc = "ac3_loop"
    /\ quee # << >>
    /\ LET q == Head(quee)
           revised == revise(puzzle, domains, q[1], q[2])
       IN  /\ domains' = revised
           /\ IF ReviseReturns(puzzle, domains, q[1], q[2])
              THEN IF SetEqualsInt(revised[q[1]], 0)
                   THEN /\ ac3Result' = "False"
                        /\ quee' = Tail(quee)
                        /\ pc' = "backtrack"
                   ELSE /\ \E vecinos \in ac3_vecinos(puzzle, q) :
                              quee' = Tail(quee) \o
                                  [ k \in 1 .. Len(vecinos) |-> << vecinos[k], q[1] >> ]
                        /\ UNCHANGED << ac3Result, pc >>
              ELSE /\ quee' = Tail(quee)
                   /\ UNCHANGED << ac3Result, pc >>
    /\ UNCHANGED << puzzle, words, assignment, stack, retval, lastEntry, result,
                    run, firstResult,
                    call >>

\* ac3, line 150: the worklist is empty, return True; solve, line 94, then
\* calls backtrack(dict()) whatever ac3 returned.
Ac3Return ==
    /\ pc = "ac3_loop"
    /\ quee = << >>
    /\ ac3Result' = "True"
    /\ assignment' = EmptyDict
    /\ pc' = "backtrack"
    /\ UNCHANGED << puzzle, words, domains, quee, stack, retval, lastEntry,
                    result, run, firstResult,
                    call >>

\* backtrack, lines 233-234: the assignment is complete and is returned.
BacktrackComplete ==
    /\ pc = "backtrack"
    /\ assignment_complete(puzzle, assignment)
    /\ retval' = Some(assignment)
    /\ lastEntry' = assignment
    /\ pc' = "return"
    /\ UNCHANGED << puzzle, words, domains, quee, ac3Result, assignment, stack,
                    result, run, firstResult,
                    call >>

\* backtrack, lines 235-236: a slot is selected and its values listed.  A
\* return value that is no list cannot be iterated: the for statement raises
\* TypeError and solve() goes no further.
BacktrackSelect ==
    /\ pc = "backtrack"
    /\ ~ assignment_complete(puzzle, assignment)
    /\ \E variable \in select_unassigned_variable(puzzle, domains, assignment) :
         \E values \in order_domain_values(puzzle, domains, variable, assignment) :
            /\ values.ok
            /\ stack' = Append(stack, [ variable |-> variable,
                                        values   |-> values.val,
                                        entry    |-> assignment ])
            /\ domains' \in order_domain_values_leaves(puzzle, domains, variable,
                                                        assignment)
    /\ pc' = "for"
    /\ UNCHANGED << puzzle, words, quee, ac3Result, assignment, retval,
                    lastEntry, result, run, firstResult,
                    call >>

\* backtrack, lines 236-244: one turn of the for loop.  The value is put in
\* the assignment; if the assignment is consistent backtrack is called on
\* it, else the slot is popped again.
BacktrackTry ==
    /\ pc = "for"
    /\ stack[Len(stack)].values # << >>
    /\ LET frame == stack[Len(stack)]
           tried == DictSet(assignment, frame.variable, Head(frame.values))
       IN  /\ stack' = [ stack EXCEPT ![Len(stack)].values = Tail(frame.values) ]
           /\ IF consistent(puzzle, tried)
              THEN /\ assignment' = tried
                   /\ pc' = "backtrack"
              ELSE /\ assignment' = DictPop(tried, frame.variable)
                   /\ pc' = "for"
    /\ UNCHANGED << puzzle, words, domains, quee, ac3Result, retval, lastEntry,
                    result, run, firstResult,
                    call >>

\* backtrack, line 245: no value is left, return None.
BacktrackExhausted ==
    /\ pc = "for"
    /\ stack[Len(stack)].values = << >>
    /\ retval' = None
    /\ lastEntry' = stack[Len(stack)].entry
    /\ stack' = SubSeq(stack, 1, Len(stack) - 1)
    /\ pc' = "return"
    /\ UNCHANGED << puzzle, words, domains, quee, ac3Result, assignment, result,
                    run, firstResult,
                    call >>

\* backtrack, lines 239-242: the recursive call has returned and its result,
\* None or not, is returned at once.
BacktrackPropagate ==
    /\ pc = "return"
    /\ stack # << >>
    /\ lastEntry' = stack[Len(stack)].entry
    /\ stack' = SubSeq(stack, 1, Len(stack) - 1)
    /\ UNCHANGED << puzzle, words, pc, domains, quee, ac3Result, assignment,
                    retval, result, run, firstResult,
                    call >>

\* solve, line 94: the outermost backtrack has returned; solve returns its
\* result.
SolveReturn ==
    /\ pc = "return"
    /\ stack = << >>
    /\ result' = retval
    /\ firstResult' = IF run = 1 THEN retval ELSE firstResult
    /\ pc' = "done"
    /\ UNCHANGED << puzzle, words, domains, quee, ac3Result, assignment, stack,
                    retval, lastEntry, run,
                    call >>

Next ==
    \/ EnforceNodeConsistency
    \/ Ac3Start
    \/ Ac3Revise
    \/ Ac3Return
    \/ BacktrackComplete
    \/ BacktrackSelect
    \/ BacktrackTry
    \/ BacktrackExhausted
    \/ BacktrackPropagate
    \/ SolveReturn

Spec == Init /\ [][Next]_vars

\* solve() is sequential code: whenever it has a next step it takes it.
FairSpec == Spec /\ WF_vars(Next)

\* A second run: a new CrosswordCreator on the same crossword, and solve()
\* again.
SolveAgain ==
    /\ pc = "done"
    /\ run = 1
    /\ run' = 2
    /\ domains' = InitialDomains(puzzle, words)
    /\ pc' = "solve"
    /\ quee' = << >>
    /\ ac3Result' = "unset"
    /\ assignment' = EmptyDict
    /\ stack' = << >>
    /\ retval' = None
    /\ lastEntry' = EmptyDict
    /\ result' = None
    /\ UNCHANGED << puzzle, words, firstResult,
                    call >>

NextTwice == Next \/ SolveAgain

SpecTwice == Init /\ [][NextTwice]_vars

----------------------------------------------------------------------------
(* The methods of a creator called one at a time, outside solve() *)

\* The puzzles the methods are called on: those without a cycle of
\* crossings, on which ac3 returns.
CallPuzzles == { PuzzleCross, PuzzleApart, PuzzlePath }

\* The assignments passed to a call: some slots, each with a word of the
\* pool, of any length.
Assignments(P, pool) == UNION { [ D -> pool ] : D \in SUBSET P.variables }

\* The arcs passed to ac3: None, no arc, or one arc of the puzzle.
ArcArguments(P) ==
    { None, Some({}) } \cup { Some({q}) : q \in AllArcs(P) }

\* consistent(assignment) raises IndexError: line 171 indexes the word of an
\* assigned neighbor at the overlap, and that word is too short.
consistent_raises(P, asg) ==
    \E var \in DOMAIN asg :
        /\ P.length[var] = Len(asg[var])
        /\ \E vecino \in neighbors(P, var) \cap DOMAIN asg :
              P.overlaps[<<var, vecino>>][2] >= Len(asg[vecino])

\* consistent(assignment) as a call ends: with True, False or IndexError.
consistent_call(P, asg) ==
    IF consistent_raises(P, asg) THEN "IndexError"
    ELSE IF consistent(P, asg) THEN "True" ELSE "False"

\* The calls made on a creator are some calls of revise and then one of
\* consistent, select_unassigned_variable or order_domain_values, or calls
\* of ac3 one after the other.
AfterRevise == pc = "idle" /\ call.op \in { "none", "revise" }
AfterAc3 == pc = "idle" /\ call.op \in { "none", "ac3" }

\* A creator on which enforce_node_consistency has been called.
InitCalls ==
    /\ puzzle \in CallPuzzles
    /\ words \in Pools
    /\ domains = enforce_node_consistency(puzzle, InitialDomains(puzzle, words))
    /\ pc = "idle"
    /\ quee = << >>
    /\ ac3Result = "unset"
    /\ assignment = EmptyDict
    /\ stack = << >>
    /\ retval = None
    /\ lastEntry = EmptyDict
    /\ result = None
    /\ run = 1
    /\ firstResult = None
    /\ call = NoCall

\* revise(x, y) on two neighboring slots.
CallRevise ==
    /\ AfterRevise
    /\ \E x \in puzzle.variables : \E y \in neighbors(puzzle, x) :
          /\ domains' = revise(puzzle, domains, x, y)
          /\ call' = [ op |-> "revise", x |-> x, y |-> y, before |-> domains,
                       ret |-> ReviseReturns(puzzle, domains, x, y) ]
    /\ UNCHANGED << puzzle, words, pc, quee, ac3Result, assignment, stack,
                    retval, lastEntry, result, run, firstResult >>

\* consistent(assignment)
CallConsistent ==
    /\ AfterRevise
    /\ \E asg \in Assignments(puzzle, words) :
          call' = [ op |-> "consistent", asg |-> asg,
                    ret |-> consistent_call(puzzle, asg) ]
    /\ UNCHANGED << puzzle, words, pc, domains, quee, ac3Result, assignment,
                    stack, retval, lastEntry, result, run, firstResult >>

\* select_unassigned_variable(assignment), some slot being unassigned.
CallSelectUnassignedVariable ==
    /\ AfterRevise
    /\ \E asg \in Assignments(puzzle, words) :
          /\ DOMAIN asg # puzzle.variables
          /\ \E var \in select_unassigned_variable(puzzle, domains, asg) :
                call' = [ op |-> "select_unassigned_variable", asg |-> asg,
                          ret |-> var ]
    /\ UNCHANGED << puzzle, words, pc, domains, quee, ac3Result, assignment,
                    stack, retval, lastEntry, result, run, firstResult >>

\* order_domain_values(var, assignment) for an unassigned slot.
CallOrderDomainValues ==
    /\ AfterRevise
    /\ \E asg \in Assignments(puzzle, words) :
       \E var \in puzzle.variables \ DOMAIN asg :
       \E values \in order_domain_values(puzzle, domains, var, asg) :
          /\ domains' \in order_domain_values_leaves(puzzle, domains, var, asg)
          /\ call' = [ op |-> "order_domain_values", var |-> var, asg |-> asg,
                       before |-> domains,
                       writes |-> order_domain_values_writes(puzzle, domains,
                                                             var, asg),
                       ret |-> values ]
    /\ UNCHANGED << puzzle, words, pc, quee, ac3Result, assignment, stack,
                    retval, lastEntry, result, run, firstResult >>

\* ac3(arcs), lines 137-140.  again: the call before this one was ac3 too,
\* so this run starts on the domain map a completed run left.
CallAc3 ==
    /\ AfterAc3
    /\ \E arcs \in ArcArguments(puzzle) :
          /\ quee' \in ac3_worklist(puzzle, arcs)
          /\ call' = [ op |-> "ac3", arcs |-> arcs,
                       again |-> (call.op = "ac3"), before |-> domains ]
    /\ ac3Result' = "unset"
    /\ pc' = "ac3_loop"
    /\ UNCHANGED << puzzle, words, domains, assignment, stack, retval,
                    lastEntry, result, run, firstResult >>

\* ac3, line 150, returning to the caller.
CallAc3Return ==
    /\ pc = "ac3_loop"
    /\ quee = << >>
    /\ ac3Result' = "True"
    /\ pc' = "idle"
    /\ UNCHANGED << puzzle, words, domains, quee, assignment, stack, retval,
                    lastEntry, result, run, firstResult, call >>

NextCalls ==
    \/ CallRevise
    \/ CallConsistent
    \/ CallSelectUnassignedVariable
    \/ CallOrderDomainValues
    \/ CallAc3
    \/ Ac3Revise
    \/ CallAc3Return

SpecCalls == InitCalls /\ [][NextCalls]_vars

----------------------------------------------------------------------------
(* Properties *)

\* The domain a slot has once only its length has been looked at.
WordsOfLength(var) == { w \in words : Len(w) = puzzle.length[var] }

\* asg gives every slot of P one word of the slot's length, and crossing
\* slots the same letter where they cross.
IsSolution(P, asg) ==
    /\ DOMAIN asg = P.variables
    /\ \A var \in P.variables : Len(asg[var]) = P.length[var]
    /\ \A x \in P.variables : \A y \in P.variables \ {x} :
          P.overlaps[<<x, y>>] # << >> =>
             asg[x][P.overlaps[<<x, y>>][1] + 1] = asg[y][P.overlaps[<<x, y>>][2] + 1]

\* solve() is running or has run backtrack.
InSearch == pc \in { "backtrack", "for", "return", "done" }

\* C1: whenever solve() returns an assignment, every slot has one word in
\* it, every word has its slot's length, and neighboring slots carry the
\* same character at their overlap.
SolveResultCompleteConsistent ==
    (pc = "done" /\ result.ok) => IsSolution(puzzle, result.val)

\* C1 witness: solve() has returned an assignment of a puzzle with two
\* crossings, from a pool that also has assignments that do not fit.
SolveReturnedCrossingAssignment ==
    /\ pc = "done"
    /\ result.ok
    /\ puzzle = PuzzlePath
    /\ \E asg \in [ puzzle.variables -> words ] : ~ IsSolution(puzzle, asg)

\* C2: solve() returns None only if no assignment of pool words to the slots
\* satisfies the length and overlap constraints (the same word may be used
\* twice).
SolveFindsSolution ==
    (pc = "done" /\ ~ result.ok) =>
        ~ \E asg \in [ puzzle.variables -> words ] : IsSolution(puzzle, asg)

\* C3: ac3() terminates: the worklist becomes empty or ac3 returns failure.
Ac3Terminates == <>(pc \notin { "solve", "ac3", "ac3_loop" })

\* C4: after AC-3 has reported failure solve() returns None without calling
\* backtrack, and backtrack() runs only when AC-3 reported success.  Failure
\* is that ac3 returned False or that a revise call of it left the domain it
\* revised empty: every slot with a neighbor is revised by ac3 and domains
\* do not change after ac3, so that is a slot with a neighbor and an empty
\* domain.
SearchOnlyAfterAc3Success ==
    /\ ac3Result = "False" => (pc = "done" /\ ~ result.ok /\ assignment = EmptyDict)
    /\ pc \in { "backtrack", "for", "return" } =>
          /\ ac3Result = "True"
          /\ \A var \in puzzle.variables :
                neighbors(puzzle, var) # {} => domains[var] # {}

\* C5: ac3() returns True only if every domain is non-empty when it returns,
\* and returns False at the revise call that leaves the revised domain empty.
Ac3ReportsEmptyDomain ==
    /\ [](ac3Result = "True" => \A var \in puzzle.variables : domains[var] # {})
    /\ [][ (pc = "ac3_loop" /\ quee # << >> /\ domains'[Head(quee)[1]] = {})
             => ac3Result' = "False" ]_vars

\* C6: after ac3() has returned success, every word of every domain has a
\* word in each neighbor's domain with the same character at the overlap.
Ac3LeavesArcConsistent ==
    ac3Result = "True" =>
        \A x \in puzzle.variables : \A y \in neighbors(puzzle, x) :
            \A w \in domains[x] : \E v \in domains[y] :
                w[puzzle.overlaps[<<x, y>>][1] + 1] = v[puzzle.overlaps[<<x, y>>][2] + 1]

\* C6 witness: ac3() has returned success after taking words out of the
\* domain of a slot that has neighbors, and left words in it.
Ac3ReturnedAfterPruning ==
    /\ ac3Result = "True"
    /\ \E x \in puzzle.variables :
          /\ neighbors(puzzle, x) # {}
          /\ domains[x] # {}
          /\ domains[x] # WordsOfLength(x)

\* C7: when a call of backtrack returns None, the assignment is what it was
\* when the call was entered.
FailedBacktrackRestoresAssignment ==
    (pc = "return" /\ ~ retval.ok) => assignment = lastEntry

\* C8: no step of solve() adds a word to a domain.
DomainsOnlyShrink ==
    [][ \A var \in puzzle.variables : domains'[var] \subseteq domains[var] ]_vars

\* C8 witness: solve() has returned with a domain that node consistency made
\* smaller than the pool and AC-3 smaller again.
DomainsShrankTwice ==
    /\ pc = "done"
    /\ \E var \in puzzle.variables :
          /\ domains[var] # WordsOfLength(var)
          /\ WordsOfLength(var) # words

\* C9: enforce_node_consistency leaves every slot with exactly the pool words
\* of its length, and from then on every word of a domain has the length of
\* its slot.
NodeConsistentDomains ==
    /\ pc = "ac3" => \A var \in puzzle.variables : domains[var] = WordsOfLength(var)
    /\ pc # "solve" =>
          \A var \in puzzle.variables : \A w \in domains[var] :
              Len(w) = puzzle.length[var]

\* C9 witness: backtrack is searching with a domain that AC-3 has pruned, in
\* a puzzle whose pool had words of another length than the slot's.
SearchingNodeConsistent ==
    /\ pc = "for"
    /\ \E var \in puzzle.variables :
          /\ domains[var] # {}
          /\ domains[var] # WordsOfLength(var)
          /\ WordsOfLength(var) # words

\* C10: a second solve() on the same puzzle and pool returns what the first
\* returned.
SolveDeterministic ==
    (run = 2 /\ pc = "done") => result = firstResult


\* The elements of a list.
Range(f) == { f[i] : i \in DOMAIN f }

\* The words of dom[x] that some word of dom[y] matches at the overlap of x
\* and y, the same string included.
Supported(P, dom, x, y) ==
    { w \in dom[x] : \E v \in dom[y] :
        w[P.overlaps[<<x, y>>][1] + 1] = v[P.overlaps[<<x, y>>][2] + 1] }

\* C11: a run of ac3 on the domain map that a completed run of ac3 left
\* changes no domain.
Ac3Idempotent ==
    (call.op = "ac3" /\ call.again) => domains = call.before

\* C11 witness: a second run of ac3 has returned, on a map from which the
\* first run had taken words and in which it had left some.
Ac3RanTwiceAfterPruning ==
    /\ call.op = "ac3"
    /\ call.again
    /\ pc = "idle"
    /\ \E var \in puzzle.variables :
          /\ neighbors(puzzle, var) # {}
          /\ call.before[var] # {}
          /\ call.before[var] # WordsOfLength(var)

\* C12: when the recursive call for a consistent value returns None, the
\* slot is taken out of the assignment and the call goes on with its next
\* value; a call returns None only when none of its values is left.
BacktrackTriesEveryValue ==
    [][ /\ (pc = "return" /\ ~ retval.ok /\ stack # << >>) =>
              /\ pc' = "for"
              /\ Len(stack') = Len(stack)
              /\ stack[Len(stack)].variable \notin DOMAIN assignment'
        /\ (pc' = "return" /\ ~ retval'.ok /\ Len(stack') < Len(stack)) =>
              stack[Len(stack)].values = << >> ]_vars

\* C13: revise(x, y) leaves in domain[x] exactly the words of the prior
\* domain[x] that some word of domain[y], the same string or not, matches at
\* the overlap.
ReviseKeepsSupported ==
    call.op = "revise" =>
        domains[call.x] = Supported(puzzle, call.before, call.x, call.y)

\* C14: revise(x, y) returns True if and only if it removed a word from
\* domain[x].
ReviseReturnsWhetherRemoved ==
    call.op = "revise" =>
        (call.ret <=> domains[call.x] # call.before[call.x])

\* Every assigned word has the length of its slot, and assigned neighbors
\* have the same character at their overlap.
FitsAndMatches(P, asg) ==
    /\ \A var \in DOMAIN asg : Len(asg[var]) = P.length[var]
    /\ \A x \in DOMAIN asg : \A y \in neighbors(P, x) \cap DOMAIN asg :
          asg[x][P.overlaps[<<x, y>>][1] + 1] = asg[y][P.overlaps[<<x, y>>][2] + 1]

\* C15: consistent(assignment) returns True if and only if every assigned
\* word has its slot's length and assigned neighbors match at their overlap;
\* with a word of another length than its slot's it returns False.
ConsistentChecksLengthAndOverlap ==
    call.op = "consistent" =>
        /\ call.ret = "True" <=> FitsAndMatches(puzzle, call.asg)
        /\ (\E var \in DOMAIN call.asg : Len(call.asg[var]) # puzzle.length[var])
              => call.ret = "False"

\* C16: select_unassigned_variable returns an unassigned slot whose domain
\* is smallest among the unassigned slots, and among those of smallest
\* domain one with the most neighbors.
SelectReturnsMrvThenDegree ==
    call.op = "select_unassigned_variable" =>
        LET unassigned == puzzle.variables \ DOMAIN call.asg
            smallest == { x \in unassigned : \A z \in unassigned :
                             Cardinality(domains[x]) <= Cardinality(domains[z]) }
        IN  /\ call.ret \in smallest
            /\ \A z \in smallest :
                  Cardinality(neighbors(puzzle, z))
                      <= Cardinality(neighbors(puzzle, call.ret))

\* The score of word w for slot var: over the unassigned neighbors of var,
\* the number of words of the neighbor's domain that do not match w at the
\* overlap.
RECURSIVE SumOver(_, _)
SumOver(S, f) ==
    IF S = {} THEN 0
    ELSE LET n == CHOOSE n \in S : TRUE IN f[n] + SumOver(S \ {n}, f)

Score(P, dom, var, asg, w) ==
    SumOver(neighbors(P, var) \ DOMAIN asg,
            [ n \in neighbors(P, var) \ DOMAIN asg |->
                Cardinality({ v \in dom[n] :
                    v[P.overlaps[<<n, var>>][1] + 1]
                        # w[P.overlaps[<<n, var>>][2] + 1] }) ])

\* C17: order_domain_values(var, assignment) returns every word of
\* domain[var] once, in ascending order of score.
OrderReturnsAscendingScore ==
    call.op = "order_domain_values" =>
        /\ call.ret.ok
        /\ Range(call.ret.val) = call.before[call.var]
        /\ Len(call.ret.val) = Cardinality(call.before[call.var])
        /\ \A i \in DOMAIN call.ret.val : \A j \in DOMAIN call.ret.val :
              i < j => Score(puzzle, call.before, call.var, call.asg, call.ret.val[i])
                         <= Score(puzzle, call.before, call.var, call.asg,
                                  call.ret.val[j])

\* C18: order_domain_values(var, assignment) leaves every domain, that of
\* var included, as it was, and writes no other set to a domain on the way.
OrderDomainValuesPure ==
    call.op = "order_domain_values" =>
        /\ domains = call.before
        /\ \A written \in call.writes : written = call.before

\* C18 witness: order_domain_values has been called for a slot with an
\* assigned neighbor against whose domain a revise would take words out of
\* the slot's domain.
OrderCalledWithPrunableDomain ==
    /\ call.op = "order_domain_values"
    /\ \E vecino \in neighbors(puzzle, call.var) \cap DOMAIN call.asg :
          revise(puzzle, call.before, call.var, vecino) # call.before

\* C19: ac3(arcs) starts its worklist from exactly the given arcs when arcs
\* are given, and from every ordered pair of neighbors when none are; so an
\* arc that was not given is revised only once a revision has enqueued it.
Ac3StartsFromGivenArcs ==
    [][ (pc = "idle" /\ pc' = "ac3_loop") =>
           Range(quee') = IF call'.arcs.ok THEN call'.arcs.val
                          ELSE AllArcs(puzzle) ]_vars

\* C20: a call of revise(x, y) changes domain[x] only.
ReviseChangesOnlyX ==
    call.op = "revise" =>
        \A var \in puzzle.variables \ {call.x} : domains[var] = call.before[var]

\* C20 witness: a call of revise(x, y) has taken words out of domain[x]
\* and left words in domain[y].
ReviseRemovedWords ==
    /\ call.op = "revise"
    /\ domains[call.x] # call.before[call.x]
    /\ domains[call.y] # {}

=============================================================================
